---------------------------- MODULE Spec2Model ----------------------------
(***************************************************************************)
(* A model of gotdom's pattern engine (selector/pattern.rs), of the Nth    *)
(* resolver, of the rule initialisation (rules/mod.rs), of the id rule's   *)
(* matcher (rules/id.rs) and of the regex cache.                           *)
(*                                                                         *)
(* Characters are one-character strings, character sequences are           *)
(* sequences of them.  Option values are records [some, v].                *)
(***************************************************************************)
EXTENDS Integers, Sequences, FiniteSets, TLC

VARIABLES
    nth_n,        \* Option<&str>: the argument n of get_allowed_indexs
    nth_index,    \* Option<&str>: the argument index of get_allowed_indexs
    nth_total,    \* usize: the argument total
    nth_out,      \* the call's outcome: not yet called, a Vec<usize>, or a panic
    m_chars,      \* &[char]: the input of Pattern::matched and of exec
    m_pattern,    \* the pattern whose matched() is called
    m_out,        \* Option<Matched> returned by matched(), or a panic
    x_queues,     \* &[Box<dyn Pattern>]: the queue handed to exec
    x_out,        \* exec's return value, or a panic
    IS_RULES_INIT,     \* rules/mod.rs: the AtomicBool
    PATTERNS,          \* pattern.rs: the registry, name -> factory
    patterns_poisoned, \* whether a thread panicked holding PATTERNS' lock
    RULES,             \* the rule registry: the names registered by add_rules
    init_pc,           \* each thread's position in rules::init
    init_k,            \* each thread's number of add_pattern calls done
    init_calls,        \* each thread's number of calls of rules::init
    init_bodies,       \* how many times the initialization body was entered
    doc_id_element,    \* what doc.get_element_by_id(id) returns
    ele_owner,         \* per element: whether owner_document() is Some(doc)
    ele_uuid,          \* per element: uuid(), an Option
    id_eles,           \* &Elements: the collection handed to all_handle
    id_use_cache,      \* Option<bool>: the cache flag handed to all_handle
    id_out,            \* all_handle's return value
    REGEXS,            \* pattern.rs: the regex cache, anchored text -> Arc
    regexs_owner,      \* the thread holding REGEXS' lock, 0 when free
    regexs_poisoned,   \* whether a thread panicked holding REGEXS' lock
    rx_pc,             \* each thread's position in RegExp::get_rule
    rx_context,        \* each thread's argument context
    rx_cache,          \* each thread's argument cache
    rx_rule,           \* each thread's local `rule`: the Arc it holds
    rx_next_arc,       \* the next Arc allocation
    rx_calls,          \* the number of get_rule calls started
    rx_compiled,       \* per context: compilations made on the cached path
    rx_returned,       \* the calls that returned: context, cache, Arc
    f_kind,            \* the pattern kind whose from_params is called
    f_s,               \* from_params' argument s
    f_p,               \* from_params' argument p
    f_out,             \* from_params' return value, or a panic
    reg_call,          \* the last add_pattern / to_pattern call and its outcome
    reg_before,        \* PATTERNS and its lock's poison flag before that call
    reg_first,         \* name -> the factory of the first add_pattern that returned
    reg_calls          \* the number of add_pattern / to_pattern calls made

nth_vars == <<nth_n, nth_index, nth_total, nth_out>>

pat_vars == <<m_chars, m_pattern, m_out, x_queues, x_out>>

init_vars ==
    <<IS_RULES_INIT, PATTERNS, patterns_poisoned, RULES, init_pc, init_k,
      init_calls, init_bodies>>

id_vars == <<doc_id_element, ele_owner, ele_uuid, id_eles, id_use_cache, id_out>>

rx_vars ==
    <<REGEXS, regexs_owner, regexs_poisoned, rx_pc, rx_context, rx_cache,
      rx_rule, rx_next_arc, rx_calls, rx_compiled, rx_returned>>

fac_vars == <<f_kind, f_s, f_p, f_out>>

reg_vars == <<reg_call, reg_before, reg_first, reg_calls>>

vars == <<nth_vars, pat_vars, init_vars, id_vars, rx_vars, fac_vars, reg_vars>>

(***************************************************************************)
(* Bounds of the model.                                                    *)
(***************************************************************************)
MaxCoef == 3
MaxOffset == 5
MaxTotal == 6
MaxLen == 3
MaxQueue == 2
MaxEles == 2
NumThreads == 2
MaxInitCalls == 2
MaxRxCalls == 3
MaxNthLen == 4
MaxParamLen == 3
MaxRegCalls == 3

(***************************************************************************)
(* Option<T>                                                               *)
(***************************************************************************)
None == [some |-> FALSE, v |-> <<>>]

Some(x) == [some |-> TRUE, v |-> x]

(***************************************************************************)
(* str::parse::<isize>(): an optional sign, then one or more ASCII digits. *)
(***************************************************************************)
Digits == <<"0", "1", "2", "3", "4", "5", "6", "7", "8", "9">>

DigitChars == {Digits[i] : i \in 1..10}

DigitVal(c) == (CHOOSE i \in 1..10 : Digits[i] = c) - 1

RECURSIVE parse_digits(_, _)
parse_digits(s, acc) ==
    IF s = <<>> THEN acc
    ELSE parse_digits(Tail(s), acc * 10 + DigitVal(Head(s)))

AllDigits(s) == s # <<>> /\ \A i \in 1..Len(s) : s[i] \in DigitChars

\* Ok(value) or Err: [ok |-> BOOLEAN, v |-> Int]
parse_isize(s) ==
    IF s = <<>> THEN [ok |-> FALSE, v |-> 0]
    ELSE IF Head(s) \in {"+", "-"}
         THEN IF AllDigits(Tail(s))
              THEN [ok |-> TRUE,
                    v |-> IF Head(s) = "-" THEN 0 - parse_digits(Tail(s), 0)
                          ELSE parse_digits(Tail(s), 0)]
              ELSE [ok |-> FALSE, v |-> 0]
         ELSE IF AllDigits(s) THEN [ok |-> TRUE, v |-> parse_digits(s, 0)]
              ELSE [ok |-> FALSE, v |-> 0]

\* i.to_string() for a signed integer
RECURSIVE nat_to_string(_)
nat_to_string(i) ==
    IF i < 10 THEN <<Digits[i + 1]>>
    ELSE nat_to_string(i \div 10) \o <<Digits[(i % 10) + 1]>>

int_to_string(i) == IF i < 0 THEN <<"-">> \o nat_to_string(0 - i) ELSE nat_to_string(i)

(***************************************************************************)
(* utils::divide_isize(a, b, RoundType): the quotient a / b rounded up     *)
(* (Ceil) or down (Floor).  Every call site passes b > 0.                  *)
(***************************************************************************)
divide_isize(a, b, round) ==
    IF round = "Ceil" THEN 0 - ((0 - a) \div b) ELSE a \div b

(***************************************************************************)
(* Nth::get_allowed_indexs                                                 *)
(***************************************************************************)
Ok(list) == [kind |-> "ok", list |-> list]

Panic == [kind |-> "panic", list |-> <<>>]

\* n == 0: the single position index, if it lies in 1..total
zero_n_indexs(index, total) ==
    IF index > 0 /\ index <= total THEN <<index - 1>> ELSE <<>>

\* n < 0: the bounds of the loop variable
start_loop_neg(n, index, total) == divide_isize(index - total, 0 - n, "Ceil")

end_loop_neg(n, index, total) == divide_isize(index - 1, 0 - n, "Floor")

\* n > 0: the bounds of the loop variable
start_loop_pos(n, index, total) == divide_isize(1 - index, n, "Ceil")

\* faulty variant: the last position is taken one short of total
end_loop_pos_short(n, index, total) == divide_isize(total - index - 1, n, "Floor")

end_loop_pos(n, index, total) == divide_isize(total - index, n, "Floor")

\* for i in start..=end: push (i * n + index) as usize - 1 unless it is 0.
\* A negative value cast to usize wraps to one above isize::MAX; it is kept
\* here as the negative value itself, which `cur_index < 1` (an unsigned
\* comparison) does not skip.
RECURSIVE nth_loop(_, _, _, _, _)
nth_loop(i, end, n, index, allow_indexs) ==
    IF i > end THEN allow_indexs
    ELSE LET cur_index == i * n + index
         IN  nth_loop(i + 1, end, n, index,
                      IF cur_index = 0 THEN allow_indexs
                      ELSE Append(allow_indexs, cur_index - 1))

\* the part of get_allowed_indexs after both arguments are parsed, n # 0
nonzero_n_indexs(n, index, total) ==
    IF n < 0 /\ index <= 0 THEN <<>>
    ELSE IF n < 0 /\ index <= 0 - n
    THEN (IF index <= total THEN <<index - 1>> ELSE <<>>)
    ELSE LET s == IF n < 0 THEN start_loop_neg(n, index, total)
                  ELSE start_loop_pos(n, index, total)
             end_loop == IF n < 0 THEN end_loop_neg(n, index, total)
                         ELSE end_loop_pos(n, index, total)
             start_loop == IF s < 0 THEN 0 ELSE s
         IN  IF start_loop > end_loop THEN <<>>
             ELSE nth_loop(start_loop, end_loop, n, index, <<>>)

\* faulty variant: the position total itself is refused
only_index_exclusive(index, total) ==
    IF index <= 0 \/ index >= total THEN <<>> ELSE <<index - 1>>

\* only index (n is None)
only_index(index, total) ==
    IF index <= 0 \/ index > total THEN <<>> ELSE <<index - 1>>

\* faulty variant: an absent index counts as the first position
index_or_one(index) ==
    IF index.some THEN parse_isize(index.v) ELSE [ok |-> TRUE, v |-> 1]

\* index.map(|index| index.parse::<isize>().unwrap()).unwrap_or(0)
index_or_default(index) ==
    IF index.some THEN parse_isize(index.v) ELSE [ok |-> TRUE, v |-> 0]

get_allowed_indexs(n, index, total) ==
    IF n.some
    THEN LET pn == parse_isize(n.v)
             pi == index_or_default(index)
         IN  IF ~pn.ok \/ ~pi.ok THEN Panic
             ELSE IF pn.v = 0 THEN Ok(zero_n_indexs(pi.v, total))
             ELSE Ok(nonzero_n_indexs(pn.v, pi.v, total))
    ELSE IF ~index.some THEN Panic
    ELSE LET pi == parse_isize(index.v)
         IN  IF ~pi.ok THEN Panic ELSE Ok(only_index(pi.v, total))

\* the texts a caller passes: decimal integers, with an explicit "+" too,
\* and one text that is no integer
NumberTexts(max) ==
    {int_to_string(i) : i \in (0 - max)..max}
        \cup {<<"+">> \o int_to_string(i) : i \in 0..max}
        \cup {<<"n">>}

NthNotCalled == [kind |-> "none", list |-> <<>>]

NthInit ==
    /\ nth_n \in {None} \cup {Some(t) : t \in NumberTexts(MaxCoef)}
    /\ nth_index \in {None} \cup {Some(t) : t \in NumberTexts(MaxOffset)}
    /\ nth_total \in 0..MaxTotal
    /\ nth_out = NthNotCalled

\* Nth::get_allowed_indexs(n, index, total)
CallGetAllowedIndexs ==
    /\ nth_out = NthNotCalled
    /\ nth_out' = get_allowed_indexs(nth_n, nth_index, nth_total)
    /\ UNCHANGED <<nth_n, nth_index, nth_total>>
    /\ UNCHANGED <<pat_vars, init_vars, id_vars, rx_vars, fac_vars, reg_vars>>


(***************************************************************************)
(* Character classes: the char::is_ascii tests.                            *)
(***************************************************************************)
AsciiUpper ==
    {"A", "B", "C", "D", "E", "F", "G", "H", "I", "J", "K", "L", "M",
     "N", "O", "P", "Q", "R", "S", "T", "U", "V", "W", "X", "Y", "Z"}

AsciiLower ==
    {"a", "b", "c", "d", "e", "f", "g", "h", "i", "j", "k", "l", "m",
     "n", "o", "p", "q", "r", "s", "t", "u", "v", "w", "x", "y", "z"}

is_ascii_alphabetic(c) == c \in AsciiUpper \cup AsciiLower

is_ascii_alphanumeric(c) == is_ascii_alphabetic(c) \/ c \in DigitChars

\* space, tab, line feed, form feed, carriage return
is_ascii_whitespace(c) == c \in {" ", "\t", "\n", "\f", "\r"}

\* utils::is_char_available_in_key, on the characters of the model (which
\* hold no control character other than whitespace and no noncharacter)
is_char_available_in_key(c) ==
    IF is_ascii_whitespace(c) THEN FALSE
    ELSE c \notin {"\"", "'", ">", "/", "="}

(***************************************************************************)
(* Patterns and Pattern::matched.                                          *)
(***************************************************************************)
\* a pattern value: its kind and its parameter
Pat(kind, arg) == [kind |-> kind, arg |-> arg]

CharPat(c) == Pat("char", c)

IdentityPat(optional) == Pat("identity", optional)

AttrKeyPat == Pat("attr_key", 0)

SpacesPat(min_count) == Pat("spaces", min_count)

IndexPat == Pat("index", 0)

NestedSelectorPat == Pat("selector", 0)

\* Option<Matched>; data is a set of <<key, value>> pairs
MatchedSome(chars, name, data) ==
    [kind |-> "some", chars |-> chars, name |-> name, data |-> data]

MatchedNone == [kind |-> "none", chars |-> <<>>, name |-> "", data |-> {}]

MatchedPanic == [kind |-> "panic", chars |-> <<>>, name |-> "", data |-> {}]

\* `for ch in chars { if test(ch) { push } else { break } }`
\* (keep[i] is the test's answer for chars[i])
RECURSIVE take_loop(_, _, _)
take_loop(chars, keep, result) ==
    IF chars = <<>> \/ ~Head(keep) THEN result
    ELSE take_loop(Tail(chars), Tail(keep), Append(result, Head(chars)))

\* impl Pattern for char
char_matched(self, chars) ==
    IF chars = <<>> THEN MatchedPanic
    ELSE IF self = chars[1] THEN MatchedSome(<<chars[1]>>, "", {})
    ELSE MatchedNone

identity_first(c) == is_ascii_alphabetic(c) \/ c = "_"

\* faulty variant: the hyphen does not continue an identifier
identity_rest_no_hyphen(c) == is_ascii_alphanumeric(c) \/ c = "_"

identity_rest(c) == is_ascii_alphanumeric(c) \/ c = "-" \/ c = "_"

\* impl Pattern for Identity
identity_matched(optional, chars) ==
    IF chars = <<>> THEN MatchedPanic
    ELSE IF ~identity_first(chars[1])
    THEN (IF optional THEN MatchedSome(<<>>, "identity", {}) ELSE MatchedNone)
    ELSE MatchedSome(
             take_loop(chars, [i \in 1..Len(chars) |-> identity_rest(chars[i])], <<>>),
             "identity", {})

\* impl Pattern for AttrKey
attr_key_matched(chars) ==
    LET result == 
            take_loop(chars, [i \in 1..Len(chars) |-> is_char_available_in_key(chars[i])], <<>>)
    IN  IF result # <<>> THEN MatchedSome(result, "attr_key", {}) ELSE MatchedNone

\* impl Pattern for Spaces
spaces_matched(min_count, chars) ==
    LET result == 
            take_loop(chars, [i \in 1..Len(chars) |-> is_ascii_whitespace(chars[i])], <<>>)
    IN  IF Len(result) >= min_count THEN MatchedSome(result, "spaces", {})
        ELSE MatchedNone

\* the range '0'..'9' is half open: it holds '0' to '8'
index_numbers(c) == c \in DigitChars \ {"9"}

\* `for ch in &chars[1..] { if numbers.contains(ch) { push } }`: no break
RECURSIVE index_filter(_)
index_filter(chars) ==
    IF chars = <<>> THEN <<>>
    ELSE (IF index_numbers(Head(chars)) THEN <<Head(chars)>> ELSE <<>>)
             \o index_filter(Tail(chars))

\* impl Pattern for Index
index_matched(chars) ==
    IF chars = <<>> THEN MatchedPanic
    ELSE IF index_numbers(chars[1])
    THEN MatchedSome(
             IF chars[1] # "0" THEN <<chars[1]>> \o index_filter(Tail(chars))
             ELSE <<chars[1]>>,
             "index", {})
    ELSE MatchedNone

\* impl Pattern for &[char] (and for Vec<char>)
slice_matched(self, chars) ==
    IF Len(self) > Len(chars) THEN MatchedNone
    ELSE IF \A i \in 1..Len(self) : self[i] = chars[i]
    THEN MatchedSome(self, "", {})
    ELSE MatchedNone

(***************************************************************************)
(* The regular expression of Nth::matched, as the regex crate matches it   *)
(* at the start of the input (leftmost-first: of two alternatives the      *)
(* first that lets the whole expression match wins).  Groups: 1 and 2 the  *)
(* sign and number before `n`, 3 and 4 those after it, 5 and 6 those of a  *)
(* bare integer.                                                           *)
(***************************************************************************)
NthContext ==
    "^(?:([-+])?([0-9]|[1-9]\\d+)?n(?:\\s*([+-])\\s*([0-9]|[1-9]\\d+))?|([-+])?([0-9]|[1-9]\\d+))"

\* the character at position i, "" past the end
CharAt(chars, i) == IF i >= 1 /\ i <= Len(chars) THEN chars[i] ELSE ""

\* the length of the run of characters of class that starts at position i
RECURSIVE run_length(_, _, _)
run_length(chars, i, class) ==
    IF CharAt(chars, i) \in class THEN 1 + run_length(chars, i + 1, class)
    ELSE 0

RegexSigns == {"+", "-"}

\* \s on the characters of the model
RegexSpaces == {" ", "\t", "\n", "\f", "\r"}

RegexNoMatch == [ok |-> FALSE, len |-> 0, groups |-> {}]

RegexMatch(len, groups) == [ok |-> TRUE, len |-> len, groups |-> groups]

\* ([0-9]|[1-9]\d+)?n at position i: the length of the number, -1 for no match
nth_regex_coefficient(chars, i) ==
    LET run == run_length(chars, i + 1, DigitChars)
    IN  IF CharAt(chars, i) \in DigitChars /\ CharAt(chars, i + 1) = "n" THEN 1
        ELSE IF /\ CharAt(chars, i) \in DigitChars \ {"0"}
                /\ run >= 1
                /\ CharAt(chars, i + 1 + run) = "n"
        THEN 1 + run
        ELSE IF CharAt(chars, i) = "n" THEN 0
        ELSE 0 - 1

\* (?:\s*([+-])\s*([0-9]|[1-9]\d+))? at position j, after the `n`: the
\* position of the sign and of the digit, or no match.  The alternative
\* [0-9] comes first and nothing has to follow it, so one digit is taken.
nth_regex_tail(chars, j) ==
    LET k == j + run_length(chars, j, RegexSpaces)
        d == k + 1 + run_length(chars, k + 1, RegexSpaces)
    IN  IF CharAt(chars, k) \in RegexSigns /\ CharAt(chars, d) \in DigitChars
        THEN [ok |-> TRUE, sign |-> k, digit |-> d]
        ELSE [ok |-> FALSE, sign |-> 0, digit |-> 0]

\* the first alternative: ([-+])?([0-9]|[1-9]\d+)?n(?: ... )?
nth_regex_with_n(chars) ==
    LET s == IF CharAt(chars, 1) \in RegexSigns THEN 1 ELSE 0
        num == nth_regex_coefficient(chars, s + 1)
        j == s + num + 2
        tail == nth_regex_tail(chars, j)
        head_groups ==
            (IF s = 1 THEN {<<"1", <<chars[1]>>>>} ELSE {})
                \cup (IF num > 0 THEN {<<"2", SubSeq(chars, s + 1, s + num)>>}
                      ELSE {})
    IN  IF num < 0 THEN RegexNoMatch
        ELSE IF tail.ok
        THEN RegexMatch(tail.digit,
                        head_groups \cup {<<"3", <<chars[tail.sign]>>>>,
                                          <<"4", <<chars[tail.digit]>>>>})
        ELSE RegexMatch(j - 1, head_groups)

\* the second alternative: ([-+])?([0-9]|[1-9]\d+)
nth_regex_bare(chars) ==
    LET s == IF CharAt(chars, 1) \in RegexSigns THEN 1 ELSE 0
    IN  IF CharAt(chars, s + 1) \in DigitChars
        THEN RegexMatch(s + 1,
                        (IF s = 1 THEN {<<"5", <<chars[1]>>>>} ELSE {})
                            \cup {<<"6", <<chars[s + 1]>>>>})
        ELSE RegexNoMatch

\* a|b: the first alternative that matches
regex_alternation(a, b) == IF a.ok THEN a ELSE b

\* rule.captures(content) for the rule compiled from "^" + context
regex_captures(context, chars) ==
    CASE context = NthContext ->
            regex_alternation(nth_regex_with_n(chars), nth_regex_bare(chars))

\* impl Pattern for RegExp: the groups that took part become the data, the
\* first caps[0].len() characters the chars (the inputs of the model are
\* ASCII, where the length in bytes is the length in characters)
regexp_captured(caps, chars) ==
    IF caps.ok
    THEN MatchedSome(SubSeq(chars, 1, caps.len), "regexp", caps.groups)
    ELSE MatchedNone

regexp_matched(context, chars) ==
    regexp_captured(regex_captures(context, chars), chars)

\* HashMap::get on a set of <<key, value>> pairs
map_get(data, key) ==
    IF \E kv \in data : kv[1] = key
    THEN Some((CHOOSE kv \in data : kv[1] = key)[2])
    ELSE None

\* faulty variant: the sign is put before the number whatever it is
get_number_any_sign(data, key, op_key, def) ==
    LET idx == IF map_get(data, key).some THEN map_get(data, key) ELSE def
        op == map_get(data, op_key)
    IN  IF ~idx.some THEN None
        ELSE IF op.some THEN Some(op.v \o idx.v)
        ELSE idx

\* Nth::get_number(data, (key, op_key), def)
get_number(data, key, op_key, def) ==
    LET idx == IF map_get(data, key).some THEN map_get(data, key) ELSE def
        op == map_get(data, op_key)
    IN  IF ~idx.some THEN None
        ELSE IF op.some /\ op.v = <<"-">> THEN Some(op.v \o idx.v)
        ELSE idx

\* impl Pattern for Nth, v being what the RegExp rule matched
nth_matched_rule(v, chars) ==
    LET is_only_index == map_get(v.data, "6").some
        index == IF is_only_index THEN get_number(v.data, "6", "5", None)
                 ELSE get_number(v.data, "4", "3", None)
        n == IF is_only_index THEN None
             ELSE get_number(v.data, "2", "1", Some(<<"1">>))
        even == <<"e", "v", "e", "n">>
        odd == <<"o", "d", "d">>
    IN  IF v.kind = "some"
        THEN LET data == (IF index.some THEN {<<"index", index.v>>} ELSE {})
                             \cup (IF n.some THEN {<<"n", n.v>>} ELSE {})
             IN  IF data # {} THEN MatchedSome(v.chars, "nth", data)
                 ELSE MatchedNone
        ELSE IF slice_matched(even, chars).kind = "some"
        THEN MatchedSome(even, "nth", {<<"n", <<"2">>>>, <<"index", <<"0">>>>})
        ELSE IF slice_matched(odd, chars).kind = "some"
        THEN MatchedSome(odd, "nth", {<<"n", <<"2">>>>, <<"index", <<"1">>>>})
        ELSE MatchedNone

\* impl Pattern for Nth
nth_matched(chars) == nth_matched_rule(regexp_matched(NthContext, chars), chars)

NthPat == Pat("nth", 0)

RegExpPat(cache, context) ==
    Pat("regexp", [cache |-> cache, context |-> context])

\* impl Pattern for NestedSelector
nested_matched(chars) == MatchedNone

\* item.matched(chars), dispatched on the pattern's kind
matched(self, chars) ==
    CASE self.kind = "char" -> char_matched(self.arg, chars)
      [] self.kind = "identity" -> identity_matched(self.arg, chars)
      [] self.kind = "attr_key" -> attr_key_matched(chars)
      [] self.kind = "spaces" -> spaces_matched(self.arg, chars)
      [] self.kind = "index" -> index_matched(chars)
      [] self.kind = "selector" -> nested_matched(chars)
      [] self.kind = "nth" -> nth_matched(chars)
      [] self.kind = "regexp" -> regexp_matched(self.arg.context, chars)

(***************************************************************************)
(* exec(queues, chars): the patterns applied in turn to the rest of chars. *)
(***************************************************************************)
ExecOk(result, start_index, matched_num, all) ==
    [kind |-> "ok", result |-> result, start_index |-> start_index,
     matched_num |-> matched_num, all |-> all]

ExecPanic ==
    [kind |-> "panic", result |-> <<>>, start_index |-> 0,
     matched_num |-> 0, all |-> FALSE]

ExecNotCalled ==
    [kind |-> "none", result |-> <<>>, start_index |-> 0,
     matched_num |-> 0, all |-> FALSE]

\* &chars[start_index..]
slice_from(chars, start_index) == SubSeq(chars, start_index + 1, Len(chars))

RECURSIVE exec_loop(_, _, _, _, _)
exec_loop(queues, chars, start_index, matched_num, result) ==
    IF queues = <<>>
    THEN ExecOk(result, start_index, matched_num, start_index = Len(chars))
    ELSE LET m == matched(Head(queues), slice_from(chars, start_index))
         IN  CASE m.kind = "panic" -> ExecPanic
               [] m.kind = "none" ->
                    ExecOk(result, start_index, matched_num,
                           start_index = Len(chars))
               [] m.kind = "some" ->
                    exec_loop(Tail(queues), chars, start_index + Len(m.chars),
                              matched_num + 1, Append(result, m))

exec(queues, chars) == exec_loop(queues, chars, 0, 0, <<>>)

(***************************************************************************)
(* The inputs of the pattern engine.                                       *)
(***************************************************************************)
\* the characters inputs are made of: two letters, the underscore, the hyphen,
\* digits, a space and a character no identifier or attribute key holds
Alphabet == {"a", "Z", "_", "-", "0", "1", "9", " ", "="}

CharSeqs(n) == UNION {[1..k -> Alphabet] : k \in 0..n}

Patterns ==
    {CharPat("="), CharPat("a"), IdentityPat(FALSE), IdentityPat(TRUE),
     AttrKeyPat, SpacesPat(0), SpacesPat(1), IndexPat, NthPat,
     NestedSelectorPat}

Queues(n) == UNION {[1..k -> Patterns] : k \in 0..n}

NoPattern == Pat("", 0)

MatchedNotCalled == [kind |-> "", chars |-> <<>>, name |-> "", data |-> {}]

NthIdle ==
    /\ nth_n = None
    /\ nth_index = None
    /\ nth_total = 0
    /\ nth_out = NthNotCalled

PatIdle ==
    /\ m_chars = <<>>
    /\ m_pattern = NoPattern
    /\ m_out = MatchedNotCalled
    /\ x_queues = <<>>
    /\ x_out = ExecNotCalled

PatInit ==
    /\ m_chars \in CharSeqs(MaxLen)
    /\ m_pattern = NoPattern
    /\ m_out = MatchedNotCalled
    /\ x_queues = <<>>
    /\ x_out = ExecNotCalled

\* pattern.matched(chars) for one pattern
CallMatched ==
    /\ m_out = MatchedNotCalled
    /\ \E p \in Patterns :
          /\ m_pattern' = p
          /\ m_out' = matched(p, m_chars)
    /\ UNCHANGED <<m_chars, x_queues, x_out>>
    /\ UNCHANGED <<nth_vars, init_vars, id_vars, rx_vars, fac_vars, reg_vars>>

\* the characters an nth argument is written with
NthAlphabet == {"n", "+", "-", "0", "1", "2", " "}

NthCharSeqs(n) == UNION {[1..k -> NthAlphabet] : k \in 0..n}

\* arguments of nth: texts over NthAlphabet, and the keywords with what
\* may follow them
NthInputs ==
    NthCharSeqs(MaxNthLen)
        \cup {<<"e", "v", "e", "n">> \o r : r \in NthCharSeqs(1)}
        \cup {<<"o", "d", "d">> \o r : r \in NthCharSeqs(1)}
        \cup {<<"o", "d">>, <<"e", "v", "e">>}

NthMatchedInit ==
    /\ m_chars \in NthInputs
    /\ m_pattern = NoPattern
    /\ m_out = MatchedNotCalled
    /\ x_queues = <<>>
    /\ x_out = ExecNotCalled

\* Nth.matched(chars)
CallNthMatched ==
    /\ m_out = MatchedNotCalled
    /\ m_pattern' = NthPat
    /\ m_out' = matched(NthPat, m_chars)
    /\ UNCHANGED <<m_chars, x_queues, x_out>>
    /\ UNCHANGED <<nth_vars, init_vars, id_vars, rx_vars, fac_vars, reg_vars>>

\* exec(queues, chars)
CallExec ==
    /\ x_out = ExecNotCalled
    /\ \E q \in Queues(MaxQueue) :
          /\ x_queues' = q
          /\ x_out' = exec(q, m_chars)
    /\ UNCHANGED <<m_chars, m_pattern, m_out>>
    /\ UNCHANGED <<nth_vars, init_vars, id_vars, rx_vars, fac_vars, reg_vars>>

(***************************************************************************)
(* The factories: from_params(s, p) of each built-in pattern kind.         *)
(***************************************************************************)
\* Result<Box<dyn Pattern>, String>, or a panic
FromOk(pattern) == [kind |-> "ok", pattern |-> pattern]

FromErr == [kind |-> "err", pattern |-> NoPattern]

FromPanic == [kind |-> "panic", pattern |-> NoPattern]

FromNotCalled == [kind |-> "", pattern |-> NoPattern]

\* check_params_return(params, cb), `pattern` being what cb() builds
check_params_return(params, pattern) ==
    IF \E i \in 1..Len(params) : params[i] # <<>> THEN FromErr
    ELSE FromOk(pattern)

\* utils::chars_to_int: Ok(value) or Err
chars_to_int(v) ==
    IF AllDigits(v) THEN [ok |-> TRUE, v |-> parse_digits(v, 0)]
    ELSE [ok |-> FALSE, v |-> 0]

\* s.trim().is_empty()
trim_is_empty(s) == \A i \in 1..Len(s) : s[i] \in RegexSpaces

\* Identity::from_params
identity_from_params(s, p) ==
    IF s = <<"?">> THEN FromOk(IdentityPat(TRUE))
    ELSE check_params_return(<<p>>, IdentityPat(FALSE))

\* Spaces::from_params, r being what exec returned for s
spaces_from_exec(r) ==
    IF r.kind = "panic" THEN FromPanic
    ELSE IF ~r.all THEN FromErr
    ELSE IF ~chars_to_int(r.result[2].chars).ok THEN FromErr
    ELSE FromOk(SpacesPat(chars_to_int(r.result[2].chars).v))

\* Spaces::from_params
spaces_from_params(s, p) ==
    IF p # <<>> THEN FromErr
    ELSE IF ~trim_is_empty(s)
    THEN spaces_from_exec(exec(<<CharPat("("), IndexPat, CharPat(")")>>, s))
    ELSE FromOk(SpacesPat(0))

\* RegExp::from_params
regexp_from_params(s, p) ==
    IF s # <<>> /\ s # <<"!">> THEN FromErr
    ELSE FromOk(RegExpPat(s = <<>>, p))

FactoryKinds ==
    {"identity", "spaces", "attr_key", "index", "nth", "regexp", "selector"}

\* <kind>::from_params(s, p)
from_params(kind, s, p) ==
    CASE kind = "identity" -> identity_from_params(s, p)
      [] kind = "spaces" -> spaces_from_params(s, p)
      [] kind = "attr_key" -> check_params_return(<<s, p>>, AttrKeyPat)
      [] kind = "index" -> check_params_return(<<s, p>>, IndexPat)
      [] kind = "nth" -> check_params_return(<<s, p>>, NthPat)
      [] kind = "regexp" -> regexp_from_params(s, p)
      [] kind = "selector" -> check_params_return(<<s, p>>, NestedSelectorPat)

\* the characters modifiers and contents are made of
ParamAlphabet == {"?", "!", "(", ")", "1", "9", " ", "x"}

ParamSeqs(n) == UNION {[1..k -> ParamAlphabet] : k \in 0..n}

\* the contents handed in: none, one character, or a text
ParamContents == ParamSeqs(1) \cup {<<"x", "1">>}

FacIdle ==
    /\ f_kind = ""
    /\ f_s = <<>>
    /\ f_p = <<>>
    /\ f_out = FromNotCalled

FacInit ==
    /\ f_kind \in FactoryKinds
    /\ f_s \in ParamSeqs(MaxParamLen)
    /\ f_p \in ParamContents
    /\ f_out = FromNotCalled

\* <f_kind>::from_params(f_s, f_p)
CallFromParams ==
    /\ f_out = FromNotCalled
    /\ f_out' = from_params(f_kind, f_s, f_p)
    /\ UNCHANGED <<f_kind, f_s, f_p>>
    /\ UNCHANGED <<nth_vars, pat_vars, init_vars, id_vars, rx_vars, reg_vars>>

(***************************************************************************)
(* The pattern registry and rules::init.                                   *)
(***************************************************************************)
Threads == 1..NumThreads

EmptyMap == [x \in {} |-> ""]

\* faulty variant: a second registration replaces the first
add_pattern_overwrite(patterns, name, from_handle) ==
    [panic |-> FALSE,
     patterns |-> [n \in DOMAIN patterns \cup {name} |->
                      IF n = name THEN from_handle ELSE patterns[n]]]

\* add_pattern(name, from_handle) on the registry `patterns`, under its lock:
\* a panic when the name is registered already, else the insertion
add_pattern(patterns, name, from_handle) ==
    IF name \in DOMAIN patterns
    THEN [panic |-> TRUE, patterns |-> patterns]
    ELSE [panic |-> FALSE, patterns |-> patterns @@ (name :> from_handle)]

\* pattern::init: the built-in patterns in the order they are added
BuiltinPatterns ==
    <<"identity", "spaces", "attr_key", "index", "nth", "regexp", "selector">>

BuiltinFactory(name) ==
    CASE name = "identity" -> "Identity::from_params"
      [] name = "spaces" -> "Spaces::from_params"
      [] name = "attr_key" -> "AttrKey::from_params"
      [] name = "index" -> "Index::from_params"
      [] name = "nth" -> "Nth::from_params"
      [] name = "regexp" -> "RegExp::from_params"
      [] name = "selector" -> "NestedSelector::from_params"

\* the call of a registered factory cb
call_factory(cb, s, p) ==
    from_params(CHOOSE kind \in FactoryKinds : BuiltinFactory(kind) = cb, s, p)

\* to_pattern(name, s, p) on the registry `patterns`, under its lock
to_pattern(patterns, name, s, p) ==
    IF name \in DOMAIN patterns THEN call_factory(patterns[name], s, p)
    ELSE FromPanic

\* the names and factories handed to the registry, and the parameters
RegNames == {"identity", "spaces", "custom"}

RegFactories == {"Identity::from_params", "Spaces::from_params"}

RegModifiers == {<<>>, <<"?">>, <<"(">>}

RegContents == {<<>>, <<"x">>}

\* add_pattern returned
AddOk == [kind |-> "unit", pattern |-> NoPattern]

RegCall(op, name, cb, s, p, out) ==
    [op |-> op, name |-> name, cb |-> cb, s |-> s, p |-> p, out |-> out]

RegNotCalled == RegCall("", "", "", <<>>, <<>>, FromNotCalled)

RegIdle ==
    /\ reg_call = RegNotCalled
    /\ reg_before = [patterns |-> EmptyMap, poisoned |-> FALSE]
    /\ reg_first = EmptyMap
    /\ reg_calls = 0

\* add_pattern(name, from_handle), from any thread.  The lock is held for the
\* whole body: PATTERNS.lock().unwrap() panics when the lock is poisoned, and
\* the panic for a registered name happens with the lock held and poisons it.
CallAddPattern ==
    /\ reg_calls < MaxRegCalls
    /\ \E name \in RegNames, from_handle \in RegFactories :
          LET r == add_pattern(PATTERNS, name, from_handle)
              aborts == patterns_poisoned \/ r.panic
          IN  /\ PATTERNS' = IF aborts THEN PATTERNS ELSE r.patterns
              /\ patterns_poisoned' = aborts
              /\ reg_call' = RegCall("add_pattern", name, from_handle, <<>>, <<>>,
                                     IF aborts THEN FromPanic ELSE AddOk)
              /\ reg_first' = IF aborts \/ name \in DOMAIN reg_first
                              THEN reg_first
                              ELSE reg_first @@ (name :> from_handle)
    /\ reg_before' = [patterns |-> PATTERNS, poisoned |-> patterns_poisoned]
    /\ reg_calls' = reg_calls + 1
    /\ UNCHANGED <<IS_RULES_INIT, RULES, init_pc, init_k, init_calls, init_bodies>>
    /\ UNCHANGED <<nth_vars, pat_vars, id_vars, rx_vars, fac_vars>>

\* to_pattern(name, s, p), from any thread.  The lock is held for the whole
\* body, the factory's call and no_implemented's panic included.
CallToPattern ==
    /\ reg_calls < MaxRegCalls
    /\ \E name \in RegNames, s \in RegModifiers, p \in RegContents :
          LET r == IF patterns_poisoned THEN FromPanic
                   ELSE to_pattern(PATTERNS, name, s, p)
          IN  /\ patterns_poisoned' = (r.kind = "panic")
              /\ reg_call' = RegCall("to_pattern", name, "", s, p, r)
    /\ reg_before' = [patterns |-> PATTERNS, poisoned |-> patterns_poisoned]
    /\ reg_calls' = reg_calls + 1
    /\ UNCHANGED <<PATTERNS, reg_first>>
    /\ UNCHANGED <<IS_RULES_INIT, RULES, init_pc, init_k, init_calls, init_bodies>>
    /\ UNCHANGED <<nth_vars, pat_vars, id_vars, rx_vars, fac_vars>>

\* the rules pushed by class::init .. all::init, in order
BuiltinRules == <<"class", "id", "attr", "pseudo", "name", "all">>

RulesIdle ==
    /\ IS_RULES_INIT = FALSE
    /\ PATTERNS = EmptyMap
    /\ patterns_poisoned = FALSE
    /\ RULES = {}
    /\ init_pc = [t \in Threads |-> "idle"]
    /\ init_k = [t \in Threads |-> 0]
    /\ init_calls = [t \in Threads |-> 0]
    /\ init_bodies = 0

\* `if !IS_RULES_INIT.load(Ordering::SeqCst)`
InitLoad(t) ==
    /\ UNCHANGED <<nth_vars, pat_vars, id_vars, rx_vars, fac_vars, reg_vars>>
    /\ init_pc[t] = "idle"
    /\ init_calls[t] < MaxInitCalls
    /\ init_calls' = [init_calls EXCEPT ![t] = @ + 1]
    /\ IF IS_RULES_INIT
       THEN /\ init_pc' = [init_pc EXCEPT ![t] = "returned"]
            /\ UNCHANGED <<init_k, init_bodies>>
       ELSE /\ init_pc' = [init_pc EXCEPT ![t] = "rule_init"]
            /\ init_k' = [init_k EXCEPT ![t] = 0]
            /\ init_bodies' = init_bodies + 1
    /\ UNCHANGED <<IS_RULES_INIT, PATTERNS, patterns_poisoned, RULES>>

\* rule::init(): registers the built-in patterns (pattern::init), one
\* add_pattern call per step.  PATTERNS.lock().unwrap() panics when the lock
\* is poisoned; a panic inside add_pattern happens with the lock held and
\* poisons it.
RuleInitAddPattern(t) ==
    /\ UNCHANGED <<nth_vars, pat_vars, id_vars, rx_vars, fac_vars, reg_vars>>
    /\ init_pc[t] = "rule_init"
    /\ LET name == BuiltinPatterns[init_k[t] + 1]
           r == add_pattern(PATTERNS, name, BuiltinFactory(name))
       IN  IF patterns_poisoned
           THEN /\ init_pc' = [init_pc EXCEPT ![t] = "aborted"]
                /\ UNCHANGED <<PATTERNS, patterns_poisoned, init_k>>
           ELSE IF r.panic
           THEN /\ init_pc' = [init_pc EXCEPT ![t] = "aborted"]
                /\ patterns_poisoned' = TRUE
                /\ UNCHANGED <<PATTERNS, init_k>>
           ELSE /\ PATTERNS' = r.patterns
                /\ init_k' = [init_k EXCEPT ![t] = @ + 1]
                /\ init_pc' = [init_pc EXCEPT ![t] =
                                  IF init_k[t] + 1 = Len(BuiltinPatterns)
                                  THEN "build_rules" ELSE "rule_init"]
                /\ UNCHANGED patterns_poisoned
    /\ UNCHANGED <<IS_RULES_INIT, RULES, init_calls, init_bodies>>

\* class::init(&mut rules) .. all::init(&mut rules): the thread's own Vec
BuildRules(t) ==
    /\ UNCHANGED <<nth_vars, pat_vars, id_vars, rx_vars, fac_vars, reg_vars>>
    /\ init_pc[t] = "build_rules"
    /\ init_pc' = [init_pc EXCEPT ![t] = "add_rules"]
    /\ UNCHANGED <<IS_RULES_INIT, PATTERNS, patterns_poisoned, RULES, init_k,
                   init_calls, init_bodies>>

\* add_rules(rules): registering a rule name twice is fatal
AddRules(t) ==
    /\ UNCHANGED <<nth_vars, pat_vars, id_vars, rx_vars, fac_vars, reg_vars>>
    /\ init_pc[t] = "add_rules"
    /\ LET names == {BuiltinRules[i] : i \in 1..Len(BuiltinRules)}
       IN  IF names \cap RULES # {}
           THEN /\ init_pc' = [init_pc EXCEPT ![t] = "aborted"]
                /\ UNCHANGED RULES
           ELSE /\ RULES' = RULES \cup names
                /\ init_pc' = [init_pc EXCEPT ![t] = "store"]
    /\ UNCHANGED <<IS_RULES_INIT, PATTERNS, patterns_poisoned, init_k,
                   init_calls, init_bodies>>

\* `IS_RULES_INIT.store(true, Ordering::SeqCst)` and the return
InitStore(t) ==
    /\ UNCHANGED <<nth_vars, pat_vars, id_vars, rx_vars, fac_vars, reg_vars>>
    /\ init_pc[t] = "store"
    /\ IS_RULES_INIT' = TRUE
    /\ init_pc' = [init_pc EXCEPT ![t] = "returned"]
    /\ UNCHANGED <<PATTERNS, patterns_poisoned, RULES, init_k, init_calls,
                   init_bodies>>

\* the caller is free to call rules::init again
InitReturn(t) ==
    /\ UNCHANGED <<nth_vars, pat_vars, id_vars, rx_vars, fac_vars, reg_vars>>
    /\ init_pc[t] = "returned"
    /\ init_pc' = [init_pc EXCEPT ![t] = "idle"]
    /\ UNCHANGED <<IS_RULES_INIT, PATTERNS, patterns_poisoned, RULES, init_k,
                   init_calls, init_bodies>>

(***************************************************************************)
(* The id rule's matcher (rules/id.rs) over one document.                  *)
(***************************************************************************)
\* the element handles of the model; a clone is a handle of the same node
Elements == {"E", "F", "G"}

\* IElementTrait::is: both uuids are present and equal
is(self, ele) ==
    /\ ele_uuid[self].some
    /\ ele_uuid[ele].some
    /\ ele_uuid[self].v = ele_uuid[ele].v

\* `for ele in eles.get_ref() { if ele.is(id_element) { push; break } }`
RECURSIVE id_filter(_, _)
id_filter(eles, id_element) ==
    IF eles = <<>> THEN <<>>
    ELSE IF is(Head(eles), id_element) THEN <<Head(eles)>>
    ELSE id_filter(Tail(eles), id_element)

\* faulty variant: the cached branch checks membership like the other branch
id_cached_checked(eles, id_element) == id_filter(eles, id_element)

\* `if use_cache { result.push(id_element.cloned()) }`
id_cached(eles, id_element) == <<id_element>>

\* the all_handle closure of the id rule
all_handle(eles, use_cache_arg) ==
    LET use_cache == use_cache_arg.some
    IN  IF eles = <<>> THEN <<>>
        ELSE IF ~ele_owner[eles[1]] THEN <<>>
        ELSE IF ~doc_id_element.some THEN <<>>
        ELSE IF use_cache THEN id_cached(eles, doc_id_element.v)
        ELSE id_filter(eles, doc_id_element.v)

IdNotCalled == [kind |-> "none", list |-> <<>>]

IdIdle ==
    /\ doc_id_element = None
    /\ ele_owner = [e \in Elements |-> TRUE]
    /\ ele_uuid = [e \in Elements |-> None]
    /\ id_eles = <<>>
    /\ id_use_cache = None
    /\ id_out = IdNotCalled

IdInit ==
    /\ doc_id_element \in {None} \cup {Some(e) : e \in Elements}
    /\ ele_owner \in {f \in [Elements -> BOOLEAN] :
                         doc_id_element.some => f[doc_id_element.v]}
    /\ ele_uuid \in {f \in [Elements -> {None} \cup {Some(e) : e \in Elements}] :
                        \A e \in Elements : f[e].some => f[e].v = e}
    /\ id_eles \in UNION {[1..k -> Elements] : k \in 0..MaxEles}
    /\ id_use_cache \in {None, Some(TRUE), Some(FALSE)}
    /\ id_out = IdNotCalled

\* all_handle(eles, use_cache)
CallAllHandle ==
    /\ id_out = IdNotCalled
    /\ id_out' = Ok(all_handle(id_eles, id_use_cache))
    /\ UNCHANGED <<doc_id_element, ele_owner, ele_uuid, id_eles, id_use_cache>>
    /\ UNCHANGED <<nth_vars, pat_vars, init_vars, rx_vars, fac_vars, reg_vars>>

(***************************************************************************)
(* The regex cache: RegExp::get_rule.                                      *)
(***************************************************************************)
\* the pattern texts handed to get_rule: two regular expressions and one
\* text that is none (an unclosed group)
RegexContexts == {<<"a">>, <<"b">>, <<"(">>}

\* `String::from("^") + context`
last_context(context) == <<"^">> \o context

\* Regex::new(key) is Ok: here, the text's groups are balanced
regex_new_ok(key) ==
    Cardinality({i \in 1..Len(key) : key[i] = "("})
        = Cardinality({i \in 1..Len(key) : key[i] = ")"})

RegexIdle ==
    /\ REGEXS = EmptyMap
    /\ regexs_owner = 0
    /\ regexs_poisoned = FALSE
    /\ rx_pc = [t \in Threads |-> "idle"]
    /\ rx_context = [t \in Threads |-> <<>>]
    /\ rx_cache = [t \in Threads |-> FALSE]
    /\ rx_rule = [t \in Threads |-> 0]
    /\ rx_next_arc = 1
    /\ rx_calls = 0
    /\ rx_compiled = [k \in {last_context(c) : c \in RegexContexts} |-> 0]
    /\ rx_returned = {}

\* a thread calls RegExp::get_rule(context, cache)
RxCall(t) ==
    /\ UNCHANGED <<nth_vars, pat_vars, init_vars, id_vars, fac_vars, reg_vars>>
    /\ rx_pc[t] = "idle"
    /\ rx_calls < MaxRxCalls
    /\ rx_calls' = rx_calls + 1
    /\ \E context \in RegexContexts, cache \in BOOLEAN :
          /\ rx_context' = [rx_context EXCEPT ![t] = context]
          /\ rx_cache' = [rx_cache EXCEPT ![t] = cache]
          /\ rx_pc' = [rx_pc EXCEPT ![t] = IF cache THEN "lock" ELSE "fresh"]
    /\ UNCHANGED <<REGEXS, regexs_owner, regexs_poisoned, rx_rule, rx_next_arc,
                   rx_compiled, rx_returned>>

\* faulty variant: the lock excludes nobody
regexs_lock_never_held == TRUE

\* REGEXS.lock() returns once no other thread holds the lock
regexs_lock_free == regexs_owner = 0

\* `REGEXS.lock().unwrap()`: a poisoned lock makes unwrap panic
RxLock(t) ==
    /\ UNCHANGED <<nth_vars, pat_vars, init_vars, id_vars, fac_vars, reg_vars>>
    /\ rx_pc[t] = "lock"
    /\ regexs_lock_free
    /\ IF regexs_poisoned
       THEN /\ rx_pc' = [rx_pc EXCEPT ![t] = "aborted"]
            /\ UNCHANGED regexs_owner
       ELSE /\ rx_pc' = [rx_pc EXCEPT ![t] = "get"]
            /\ regexs_owner' = t
    /\ UNCHANGED <<REGEXS, regexs_poisoned, rx_context, rx_cache, rx_rule,
                   rx_next_arc, rx_calls, rx_compiled, rx_returned>>

\* `if let Some(rule) = regexs.get(&last_context[..]) { Arc::clone(rule) }`
RxGet(t) ==
    /\ UNCHANGED <<nth_vars, pat_vars, init_vars, id_vars, fac_vars, reg_vars>>
    /\ rx_pc[t] = "get"
    /\ LET key == last_context(rx_context[t])
       IN  IF key \in DOMAIN REGEXS
           THEN /\ rx_rule' = [rx_rule EXCEPT ![t] = REGEXS[key]]
                /\ rx_pc' = [rx_pc EXCEPT ![t] = "unlock"]
           ELSE /\ rx_pc' = [rx_pc EXCEPT ![t] = "compile"]
                /\ UNCHANGED rx_rule
    /\ UNCHANGED <<REGEXS, regexs_owner, regexs_poisoned, rx_context, rx_cache,
                   rx_next_arc, rx_calls, rx_compiled, rx_returned>>

\* the else branch: Regex::new(key).expect(..), Arc::new, regexs.insert.
\* A failed expect panics with the lock held and poisons it.
RxCompileInsert(t) ==
    /\ UNCHANGED <<nth_vars, pat_vars, init_vars, id_vars, fac_vars, reg_vars>>
    /\ rx_pc[t] = "compile"
    /\ LET key == last_context(rx_context[t])
       IN  IF ~regex_new_ok(key)
           THEN /\ rx_pc' = [rx_pc EXCEPT ![t] = "aborted"]
                /\ regexs_poisoned' = TRUE
                /\ regexs_owner' = 0
                /\ UNCHANGED <<REGEXS, rx_rule, rx_next_arc, rx_compiled>>
           ELSE /\ REGEXS' = (key :> rx_next_arc) @@ REGEXS
                /\ rx_rule' = [rx_rule EXCEPT ![t] = rx_next_arc]
                /\ rx_next_arc' = rx_next_arc + 1
                /\ rx_compiled' = [rx_compiled EXCEPT ![key] = @ + 1]
                /\ rx_pc' = [rx_pc EXCEPT ![t] = "unlock"]
                /\ UNCHANGED <<regexs_poisoned, regexs_owner>>
    /\ UNCHANGED <<rx_context, rx_cache, rx_calls, rx_returned>>

\* the guard is dropped and `rule` is returned
RxUnlock(t) ==
    /\ UNCHANGED <<nth_vars, pat_vars, init_vars, id_vars, fac_vars, reg_vars>>
    /\ rx_pc[t] = "unlock"
    /\ regexs_owner' = 0
    /\ rx_returned' = rx_returned \cup
           {[context |-> rx_context[t], cache |-> TRUE, arc |-> rx_rule[t]]}
    /\ rx_pc' = [rx_pc EXCEPT ![t] = "idle"]
    /\ UNCHANGED <<REGEXS, regexs_poisoned, rx_context, rx_cache, rx_rule,
                   rx_next_arc, rx_calls, rx_compiled>>

\* cache == false: `Arc::new(Regex::new(key).expect(..))`, no lock taken
RxFresh(t) ==
    /\ UNCHANGED <<nth_vars, pat_vars, init_vars, id_vars, fac_vars, reg_vars>>
    /\ rx_pc[t] = "fresh"
    /\ IF ~regex_new_ok(last_context(rx_context[t]))
       THEN /\ rx_pc' = [rx_pc EXCEPT ![t] = "aborted"]
            /\ UNCHANGED <<rx_rule, rx_next_arc, rx_returned>>
       ELSE /\ rx_rule' = [rx_rule EXCEPT ![t] = rx_next_arc]
            /\ rx_next_arc' = rx_next_arc + 1
            /\ rx_returned' = rx_returned \cup
                   {[context |-> rx_context[t], cache |-> FALSE,
                     arc |-> rx_next_arc]}
            /\ rx_pc' = [rx_pc EXCEPT ![t] = "idle"]
    /\ UNCHANGED <<REGEXS, regexs_owner, regexs_poisoned, rx_context, rx_cache,
                   rx_calls, rx_compiled>>

(***************************************************************************)
(* Specifications.                                                         *)
(***************************************************************************)
\* Nth::get_allowed_indexs on every argument triple
Init == NthInit /\ PatIdle /\ RulesIdle /\ IdIdle /\ RegexIdle /\ FacIdle /\ RegIdle

Next == CallGetAllowedIndexs

Spec == Init /\ [][Next]_vars

\* Pattern::matched of one pattern on every input
InitMatched == NthIdle /\ PatInit /\ RulesIdle /\ IdIdle /\ RegexIdle /\ FacIdle /\ RegIdle

NextMatched == CallMatched

SpecMatched == InitMatched /\ [][NextMatched]_vars

\* exec of every queue on every input
InitExec == NthIdle /\ PatInit /\ RulesIdle /\ IdIdle /\ RegexIdle /\ FacIdle /\ RegIdle

NextExec == CallExec

SpecExec == InitExec /\ [][NextExec]_vars

\* rules::init called by every thread, in any interleaving
InitRulesInit == NthIdle /\ PatIdle /\ RulesIdle /\ IdIdle /\ RegexIdle /\ FacIdle /\ RegIdle

NextRulesInit ==
    \E t \in Threads :
        \/ InitLoad(t)
        \/ RuleInitAddPattern(t)
        \/ BuildRules(t)
        \/ AddRules(t)
        \/ InitStore(t)
        \/ InitReturn(t)

SpecRulesInit == InitRulesInit /\ [][NextRulesInit]_vars

\* the id rule's all_handle on every document, collection and flag
InitId == NthIdle /\ PatIdle /\ RulesIdle /\ IdInit /\ RegexIdle /\ FacIdle /\ RegIdle

NextId == CallAllHandle

SpecId == InitId /\ [][NextId]_vars

\* RegExp::get_rule called by every thread, in any interleaving
InitNthMatched ==
    NthIdle /\ NthMatchedInit /\ RulesIdle /\ IdIdle /\ RegexIdle /\ FacIdle /\ RegIdle

NextNthMatched == CallNthMatched

SpecNthMatched == InitNthMatched /\ [][NextNthMatched]_vars

InitFactory ==
    NthIdle /\ PatIdle /\ RulesIdle /\ IdIdle /\ RegexIdle /\ FacInit /\ RegIdle

NextFactory == CallFromParams

SpecFactory == InitFactory /\ [][NextFactory]_vars

InitRegistry ==
    NthIdle /\ PatIdle /\ RulesIdle /\ IdIdle /\ RegexIdle /\ FacIdle /\ RegIdle

NextRegistry == CallAddPattern \/ CallToPattern

SpecRegistry == InitRegistry /\ [][NextRegistry]_vars

InitRegex == NthIdle /\ PatIdle /\ RulesIdle /\ IdIdle /\ RegexIdle /\ FacIdle /\ RegIdle

NextRegex ==
    \E t \in Threads :
        \/ RxCall(t)
        \/ RxLock(t)
        \/ RxGet(t)
        \/ RxCompileInsert(t)
        \/ RxUnlock(t)
        \/ RxFresh(t)

SpecRegex == InitRegex /\ [][NextRegex]_vars

(***************************************************************************)
(* Claims about Nth::get_allowed_indexs (specification Spec).              *)
(***************************************************************************)
Range(seq) == {seq[i] : i \in 1..Len(seq)}

StrictlyAscending(seq) == \A i \in 1..(Len(seq) - 1) : seq[i] < seq[i + 1]

Abs(x) == IF x < 0 THEN 0 - x ELSE x

\* the arguments as integers, once the call has parsed them
NthCoefGiven == nth_n.some /\ parse_isize(nth_n.v).ok

NthCoef == parse_isize(nth_n.v).v

NthOffsetOk == ~nth_index.some \/ parse_isize(nth_index.v).ok

NthOffset == IF nth_index.some THEN parse_isize(nth_index.v).v ELSE 0

\* C1 (as claimed): every returned index i satisfies 0 <= i < total and the
\* returned list is strictly ascending, whatever the coefficient.
C1_InRangeAscending ==
    nth_out.kind = "ok" =>
        /\ \A i \in Range(nth_out.list) : 0 <= i /\ i < nth_total
        /\ StrictlyAscending(nth_out.list)

\* C1, the part the code keeps: every returned index lies in 0..total-1 and
\* no index is returned twice.
C1_InRangeNoDuplicates ==
    nth_out.kind = "ok" =>
        /\ \A i \in Range(nth_out.list) : 0 <= i /\ i < nth_total
        /\ Cardinality(Range(nth_out.list)) = Len(nth_out.list)

\* the positions k*c + o, k >= 0, that lie in 1..total
C2_Positions ==
    {p \in 1..nth_total :
        \E k \in 0..(nth_total + Abs(NthOffset)) : p = k * NthCoef + NthOffset}

C3_SingleIndex ==
    (/\ nth_out # NthNotCalled
     /\ ~nth_n.some \/ (NthCoefGiven /\ NthCoef = 0)
     /\ nth_index.some /\ NthOffsetOk) =>
        nth_out = Ok(IF 1 <= NthOffset /\ NthOffset <= nth_total
                     THEN <<NthOffset - 1>> ELSE <<>>)

C3_Witness ==
    /\ ~nth_n.some /\ nth_index = Some(<<"4">>) /\ nth_total = 6
    /\ nth_out = Ok(<<3>>)

(***************************************************************************)
(* Claims about exec (specification SpecExec).                             *)
(***************************************************************************)
RECURSIVE ConcatChars(_)
ConcatChars(steps) ==
    IF steps = <<>> THEN <<>>
    ELSE Head(steps).chars \o ConcatChars(Tail(steps))

\* C5 (as claimed): when exec reports that the whole input was consumed, the
\* chars of the returned steps, concatenated in order, are the first
\* consumed_length characters of the input.
C5_ConcatIsConsumedPrefix ==
    (x_out.kind = "ok" /\ x_out.all) =>
        ConcatChars(x_out.result) = SubSeq(m_chars, 1, x_out.start_index)

\* C5 for the queues that hold no Index pattern: there the composition holds.
C5_ConcatWithoutIndex ==
    (/\ x_out.kind = "ok" /\ x_out.all
     /\ \A i \in 1..Len(x_queues) : x_queues[i] # IndexPat) =>
        ConcatChars(x_out.result) = SubSeq(m_chars, 1, x_out.start_index)

(***************************************************************************)
(* Claims about Pattern::matched (specification SpecMatched).              *)
(***************************************************************************)
\* the length of the longest prefix of chars made of characters of class
PrefixLen(chars, class) ==
    CHOOSE k \in 0..Len(chars) :
        /\ \A i \in 1..k : chars[i] \in class
        /\ k = Len(chars) \/ chars[k + 1] \notin class

LongestPrefix(chars, class) == SubSeq(chars, 1, PrefixLen(chars, class))

\* C9 (as claimed): Index matches the longest prefix that is an integer
\* literal without a leading zero ("0", or 1-9 followed by the maximal run
\* of digits), and nothing when the first character is no digit 0-9.
C9_IndexLongestLiteral ==
    (m_out # MatchedNotCalled /\ m_pattern = IndexPat /\ m_chars # <<>>) =>
        IF m_chars[1] \in DigitChars
        THEN m_out = MatchedSome(
                 IF m_chars[1] = "0" THEN <<"0">>
                 ELSE LongestPrefix(m_chars, DigitChars),
                 "index", {})
        ELSE m_out = MatchedNone

IdentStart == AsciiUpper \cup AsciiLower \cup {"_"}

IdentPart == IdentStart \cup DigitChars \cup {"-"}

\* C10: on a non-empty input, Identity consumes the longest prefix of
\* [A-Za-z0-9_-] when the first character is in [A-Za-z_]; otherwise it
\* returns no match, or with the optional flag a match of zero characters
\* named "identity".
C10_Identity ==
    (m_out # MatchedNotCalled /\ m_pattern.kind = "identity" /\ m_chars # <<>>) =>
        IF m_chars[1] \in IdentStart
        THEN m_out = MatchedSome(LongestPrefix(m_chars, IdentPart), "identity", {})
        ELSE IF m_pattern.arg
        THEN m_out = MatchedSome(<<>>, "identity", {})
        ELSE m_out = MatchedNone

C10_Witness ==
    /\ m_pattern = IdentityPat(FALSE)
    /\ m_chars = <<"_", "-", "1">>
    /\ m_out = MatchedSome(<<"_", "-", "1">>, "identity", {})

(***************************************************************************)
(* Claims about rules::init (specification SpecRulesInit).                 *)
(***************************************************************************)
\* C4 (as claimed): in every interleaving of threads calling rules::init the
\* initialization body is entered by at most one thread, and no caller
\* aborts on a duplicate registration.
C4_InitOnce ==
    /\ init_bodies <= 1
    /\ \A t \in Threads : init_pc[t] # "aborted"

(***************************************************************************)
(* Claims about the id rule's all_handle (specification SpecId).           *)
(***************************************************************************)
\* the collection's elements all belong to the document
IdAllOwned == \A i \in 1..Len(id_eles) : ele_owner[id_eles[i]]

\* the document holds an element E with the id, and C does not contain E
IdElementOutsideC ==
    /\ doc_id_element.some
    /\ doc_id_element.v \notin Range(id_eles)

\* C6 (as claimed): with a truthy cache flag, for every collection C of the
\* document's elements that does not contain E, the empty collection
\* included, all_handle returns exactly [E].
C6_CachedReturnsE ==
    (/\ id_out # IdNotCalled
     /\ id_use_cache = Some(TRUE)
     /\ IdAllOwned
     /\ IdElementOutsideC) =>
        id_out = Ok(<<doc_id_element.v>>)

\* C6 (amended): with a truthy cache flag, for every NON-EMPTY collection C
\* that does not contain E and whose first element belongs to the document,
\* all_handle returns exactly [E], with no membership check; for the empty
\* collection it returns the empty collection.
C6_CachedReturnsENonEmpty ==
    (/\ id_out # IdNotCalled
     /\ id_use_cache = Some(TRUE)
     /\ IdElementOutsideC) =>
        /\ (id_eles # <<>> /\ ele_owner[id_eles[1]]) =>
               id_out = Ok(<<doc_id_element.v>>)
        /\ id_eles = <<>> => id_out = Ok(<<>>)

C6_Witness ==
    /\ id_use_cache = Some(TRUE)
    /\ doc_id_element = Some("E")
    /\ id_eles = <<"F", "G">>
    /\ ele_owner["F"]
    /\ id_out = Ok(<<"E">>)

IdFlagFalsy == id_use_cache = None \/ id_use_cache = Some(FALSE)

\* C7 (as claimed): with a falsy cache flag, absent or an explicit false,
\* every element of the result is an element of C that is the id-matched
\* element E; the result is empty when C does not contain E.
C7_UncachedWithinC ==
    (id_out # IdNotCalled /\ IdFlagFalsy) =>
        /\ \A i \in 1..Len(id_out.list) :
              /\ id_out.list[i] \in Range(id_eles)
              /\ doc_id_element = Some(id_out.list[i])
        /\ IdElementOutsideC => id_out.list = <<>>

\* C7 for an absent flag alone: there the scan of C is made.
C7_AbsentFlagWithinC ==
    (id_out # IdNotCalled /\ id_use_cache = None) =>
        /\ \A i \in 1..Len(id_out.list) :
              /\ id_out.list[i] \in Range(id_eles)
              /\ doc_id_element = Some(id_out.list[i])
        /\ IdElementOutsideC => id_out.list = <<>>

(***************************************************************************)
(* Claims about the regex cache (specification SpecRegex).                 *)
(***************************************************************************)
RxCachedReturns(key) ==
    {r \in rx_returned : r.cache /\ last_context(r.context) = key}

\* each anchored text a cached call has returned for was compiled exactly
\* once, and every such call returned the Arc the cache holds for it
C8_CompiledOnceShared ==
    \A key \in DOMAIN rx_compiled :
        /\ rx_compiled[key] <= 1
        /\ RxCachedReturns(key) # {} =>
              /\ rx_compiled[key] = 1
              /\ key \in DOMAIN REGEXS
              /\ \A r \in RxCachedReturns(key) : r.arc = REGEXS[key]

\* no step removes or replaces an entry of the cache, and a step of a
\* cache=false call leaves the cache as it is
C8_CacheStep ==
    /\ \A key \in DOMAIN REGEXS :
          key \in DOMAIN REGEXS' /\ REGEXS'[key] = REGEXS[key]
    /\ \A t \in Threads :
          (rx_pc[t] = "fresh" /\ rx_pc'[t] # "fresh") => REGEXS' = REGEXS

NthData(n, index) == {<<"n", n>>, <<"index", index>>}

NthCalledOn(chars) == m_pattern = NthPat /\ m_chars = chars

\* C11: Nth applied to "even" produces the capture data of "2n+0", and
\* applied to "odd" the capture data of "2n+1": n = 2 with index = 0, and
\* n = 2 with index = 1.
C11_EvenOddData ==
    /\ (NthCalledOn(<<"e", "v", "e", "n">>) \/ NthCalledOn(<<"2", "n", "+", "0">>))
          => m_out.kind = "some" /\ m_out.data = NthData(<<"2">>, <<"0">>)
    /\ (NthCalledOn(<<"o", "d", "d">>) \/ NthCalledOn(<<"2", "n", "+", "1">>))
          => m_out.kind = "some" /\ m_out.data = NthData(<<"2">>, <<"1">>)

C11_Witness ==
    /\ NthCalledOn(<<"2", "n", "+", "1">>)
    /\ m_out = MatchedSome(m_chars, "nth", NthData(<<"2">>, <<"1">>))

(***************************************************************************)
(* Claims about the pattern registry (specification SpecRegistry).         *)
(***************************************************************************)
RegRegistered == reg_call.name \in DOMAIN reg_before.patterns

\* every name is bound to the factory of its first registration
RegFirstBindings ==
    /\ DOMAIN PATTERNS = DOMAIN reg_first
    /\ \A name \in DOMAIN PATTERNS : PATTERNS[name] = reg_first[name]

\* add_pattern with a registered name aborts and leaves the bindings alone
RegDuplicateAborts ==
    (reg_call.op = "add_pattern" /\ RegRegistered)
        => reg_call.out.kind = "panic" /\ PATTERNS = reg_before.patterns

\* to_pattern: the factory's result for a registered name, an abort for an
\* unregistered one
RegLookup ==
    reg_call.op = "to_pattern"
        => IF RegRegistered
           THEN reg_call.out = call_factory(reg_before.patterns[reg_call.name],
                                            reg_call.s, reg_call.p)
           ELSE reg_call.out.kind = "panic"

RegLookupReadOnly ==
    reg_call.op = "to_pattern" => PATTERNS = reg_before.patterns

\* the lock is poisoned exactly when some call so far has aborted, and
\* a call made with the lock poisoned aborts without changing the registry
RegPoisoning ==
    /\ patterns_poisoned <=> (reg_before.poisoned \/ reg_call.out.kind = "panic")
    /\ (reg_call.op # "" /\ reg_before.poisoned)
          => reg_call.out.kind = "panic" /\ PATTERNS = reg_before.patterns

\* C12 as stated: after any sequence of add_pattern and to_pattern calls every
\* name is bound to the factory of its first registration; add_pattern with a
\* registered name aborts without changing the binding; to_pattern returns
\* the registered factory's result, aborts for an unregistered name, and
\* never changes the registry.
C12_Registry ==
    /\ RegFirstBindings
    /\ RegDuplicateAborts
    /\ RegLookup
    /\ RegLookupReadOnly

\* C12, amended: the bindings, the duplicate registration and the read-only
\* lookup as stated; to_pattern returns the registered factory's result, and
\* aborts for an unregistered name, as long as no earlier call has aborted;
\* once a call has aborted every later call aborts, the registry unchanged.
C12_RegistryUntilAbort ==
    /\ RegFirstBindings
    /\ RegDuplicateAborts
    /\ ~reg_before.poisoned => RegLookup
    /\ RegLookupReadOnly
    /\ RegPoisoning

C12_Witness ==
    /\ reg_call.op = "to_pattern"
    /\ reg_call.name = "identity"
    /\ PATTERNS = ("identity" :> "Identity::from_params")
    /\ reg_call.s = <<"?">>
    /\ reg_call.p = <<>>
    /\ reg_before.poisoned
    /\ reg_call.out = FromPanic
    /\ call_factory(PATTERNS["identity"], reg_call.s, reg_call.p)
          = FromOk(IdentityPat(TRUE))

(***************************************************************************)
(* Claims about the factories (specification SpecFactory).                 *)
(***************************************************************************)
FromParamsCalled == f_out # FromNotCalled

\* "(" digits ")"
ParenthesizedInteger(s) ==
    /\ Len(s) >= 3
    /\ s[1] = "("
    /\ s[Len(s)] = ")"
    /\ AllDigits(SubSeq(s, 2, Len(s) - 1))

\* C13: every built-in factory validates both parameters: a content for a
\* kind other than regexp, a modifier for attr_key, index, nth and selector,
\* a modifier other than "?" for identity, other than "!" for regexp, other
\* than a parenthesized integer for spaces, gives an error and no Pattern.
C13_FactoriesValidate ==
    FromParamsCalled =>
        /\ (f_kind # "regexp" /\ f_p # <<>>) => f_out = FromErr
        /\ (f_kind \in {"attr_key", "index", "nth", "selector"} /\ f_s # <<>>)
              => f_out = FromErr
        /\ (f_kind = "identity" /\ f_s \notin {<<>>, <<"?">>}) => f_out = FromErr
        /\ (f_kind = "regexp" /\ f_s \notin {<<>>, <<"!">>}) => f_out = FromErr
        /\ (f_kind = "spaces" /\ f_s # <<>> /\ ~ParenthesizedInteger(f_s))
              => f_out = FromErr

(***************************************************************************)
(* Claims about mismatching input (specification SpecExec).                *)
(***************************************************************************)
\* C14: input mismatch is never a crash: every pattern's matched returns a
\* match or the absence of one for every input, the empty one included, so
\* exec(Q, S) returns normally for every queue Q and input S, also when S is
\* used up before the last pattern of Q is applied.
C14_ExecReturnsNormally ==
    x_out # ExecNotCalled =>
        /\ x_out.kind = "ok"
        /\ \A i \in 1..Len(x_queues) :
              \A k \in 0..Len(m_chars) :
                  matched(x_queues[i], slice_from(m_chars, k)).kind # "panic"

(***************************************************************************)
(* Claims about an absent offset (specification Spec).                     *)
(***************************************************************************)
NthOffsetAbsent == nth_out # NthNotCalled /\ ~nth_index.some

\* the positions k*c, k >= 0, that lie in 1..total
C15_Multiples ==
    {p \in 1..nth_total : \E k \in 0..nth_total : p = k * NthCoef}

\* C15 as stated: an absent offset is treated as 0 for every coefficient, an
\* absent coefficient included: the call returns a list, the empty list when
\* the coefficient is absent or 0, and never aborts.
C15_AbsentOffsetNeverAborts ==
    (NthOffsetAbsent /\ (~nth_n.some \/ NthCoefGiven)) =>
        /\ nth_out.kind = "ok"
        /\ (~nth_n.some \/ NthCoef = 0) => nth_out.list = <<>>
        /\ NthCoefGiven => Range(nth_out.list) = {p - 1 : p \in C15_Multiples}

\* C15, amended: an absent offset is treated as 0 for every coefficient that
\* is given: the call returns the positions k*c (none for c <= 0) and does
\* not abort; with the coefficient absent too, the call aborts.
C15_AbsentOffsetWithCoefficient ==
    /\ (NthOffsetAbsent /\ NthCoefGiven) =>
          /\ nth_out.kind = "ok"
          /\ Range(nth_out.list) = {p - 1 : p \in C15_Multiples}
          /\ NthCoef <= 0 => nth_out.list = <<>>
    /\ (NthOffsetAbsent /\ ~nth_n.some) => nth_out = Panic

C15_Witness ==
    /\ nth_n = Some(<<"2">>)
    /\ nth_index = None
    /\ nth_total = 6
    /\ nth_out = Ok(<<1, 3, 5>>)

=============================================================================
